---- MODULE Spec2Model ----
(***************************************************************************)
(* A model of the export-consolidate-upload pipeline of lib_bi and of its  *)
(* query-with-error-sink wrapper:                                          *)
(*   - GCPBigQueryHandler.execute_query_log_errs   (gcp_bq_handler.py)     *)
(*   - concat_parquet_to_csv_gzip / run_command    (file_handler.py)       *)
(*   - GCPBigQueryHandler.load_to_gcs_in_parallel  (gcp_bq_handler.py)     *)
(*   - SftpHandler / FtpHandler upload fan-out     (sftp_handler.py, ...)  *)
(* Each component has its own specification (SpecSink, SpecConcat,         *)
(* SpecFanOut); the variables of the other components stay at their        *)
(* initial values.                                                         *)
(***************************************************************************)
EXTENDS Integers, Sequences, FiniteSets, TLC

(***************************************************************************)
(* Bounds of the model.                                                    *)
(***************************************************************************)
\* number of execute_query_log_errs calls made one after another
MaxCalls == 2
\* largest value the wall clock (datetime.now()) reaches
MaxTime == 2
\* largest number of table names in part_tables_name
MaxTables == 2
\* largest number of items in one fan-out batch
MaxTasks == 3
\* worker threads of the pool
MaxWorkers == 2
\* fan-out calls made one after another
MaxBatches == 2

VARIABLES
    \* ---- execute_query_log_errs -------------------------------------
    sk_pc,                    \* position inside execute_query_log_errs
    extra_columns_to_insert,  \* the caller's dict (mutated in place)
    column_error_name,
    column_datetime_name,
    error,                    \* the exception bound by "except ... as error"
    current_time,             \* datetime.now() captured in the handler
    log_table,                \* rows of the BigQuery log table
    now,                      \* the wall clock
    query_result,             \* what execute_query returned
    sk_outcome,               \* what the caller observes
    sk_calls,                 \* calls made so far
    sk_insert,                \* what insert_rows_json did in this call
    sk_template0,             \* the dict as the caller passed it
    sk_log0,                  \* the log table when the call started
    sk_path,                  \* positions this call went through
    \* ---- concat_parquet_to_csv_gzip ---------------------------------
    ct_pc,                    \* position inside concat_parquet_to_csv_gzip
    output_folder,            \* names of the files in the working directory
    part_tables_name,         \* the list of table names of the call
    ct_i,                     \* index of the for loop in part_tables_name
    csv_file_path,            \* the files selected by the listing
    csv_name_path,            \* the merged output of the current table
    ct_hist,                  \* one record per table the loop has started
    \* ---- the fan-out calls -----------------------------------------
    fo_pc,                    \* position of the caller inside the call
    fo_kind,                  \* "export" or "upload"
    tables_name,              \* the tables of load_to_gcs_in_parallel
    files_name_to_upload,     \* os.listdir(output_folder) of the upload
    fo_task,                  \* the pool's tasks, in submission order
    export_jobs,              \* extract jobs the warehouse has started
    exported,                 \* tables whose extract job completed
    attempts,                 \* transfers begun on the connection, per entry
    uploaded,                 \* entries that reached the remote server
    fo_raised,                \* tasks whose own call raised
    fo_batches,               \* fan-out calls made so far
    fo_returned,              \* kinds of fan-out call that have returned
    fo_success_logged         \* "All files loaded successfully :3"

sinkVars == <<sk_pc, extra_columns_to_insert, column_error_name,
              column_datetime_name, error, current_time, log_table, now,
              query_result, sk_outcome, sk_calls, sk_insert, sk_template0,
              sk_log0, sk_path>>

concatVars == <<ct_pc, output_folder, part_tables_name, ct_i, csv_file_path,
                csv_name_path, ct_hist>>

fanVars == <<fo_pc, fo_kind, tables_name, files_name_to_upload, fo_task,
             export_jobs, exported, attempts, uploaded, fo_raised, fo_batches,
             fo_returned, fo_success_logged>>

vars == <<sinkVars, concatVars, fanVars>>

(***************************************************************************)
(* Python values.  Every object is a record of one shape so that any two   *)
(* of them can be compared.                                                *)
(***************************************************************************)
Obj(c, m) == [cls |-> c, msg |-> m]
None == Obj("NoneType", "None")
NoError == Obj("", "")
Results == {Obj("RowIterator", "rows_1"), Obj("RowIterator", "rows_2")}
QueryErrors == {Obj("BadRequest", "syntax error"), Obj("TimeoutError", "timed out")}
SinkErrors == {Obj("TypeError", "not JSON serializable"), Obj("NotFound", "no such table")}

\* str(error): the message of the exception, its class is lost
Str(e) == [tag |-> "str", s |-> e.msg, t |-> 0]
\* a datetime value
DateTime(n) == [tag |-> "datetime", s |-> "", t |-> n]
StrLit(x) == [tag |-> "str", s |-> x, t |-> 0]

\* d[k] = v on a Python dict
DictSet(d, k, v) == [x \in (DOMAIN d) \cup {k} |-> IF x = k THEN v ELSE d[x]]

ColumnNames == {"error_message", "error_timestamp"}
Templates ==
    { [c \in {"job"} |-> StrLit("x")],
      [c \in {"job", "error_message"} |-> StrLit("x")] }

Returned(v) == [kind |-> "returned", value |-> v]
Raised(e) == [kind |-> "raised", value |-> e]
NoOutcome == [kind |-> "none", value |-> None]

SinkTerminal == {"SUCCEEDED", "RAISED"}

\* no fan-out call has been made
FanOutIdle ==
    /\ fo_pc = "idle"
    /\ fo_kind = "none"
    /\ tables_name = <<>>
    /\ files_name_to_upload = <<>>
    /\ fo_task = <<>>
    /\ export_jobs = {}
    /\ exported = {}
    /\ attempts = <<>>
    /\ uploaded = {}
    /\ fo_raised = {}
    /\ fo_batches = 0
    /\ fo_returned = {}
    /\ fo_success_logged = FALSE

\* concat_parquet_to_csv_gzip has not been called
ConcatIdle ==
    /\ ct_pc = "idle"
    /\ output_folder = {}
    /\ part_tables_name = <<>>
    /\ ct_i = 0
    /\ csv_file_path = {}
    /\ csv_name_path = <<>>
    /\ ct_hist = <<>>

(***************************************************************************)
(* execute_query_log_errs                                                  *)
(***************************************************************************)
SinkIdle ==
    /\ sk_pc = "idle"
    /\ extra_columns_to_insert = [c \in {"job"} |-> StrLit("x")]
    /\ column_error_name = "error_message"
    /\ column_datetime_name = "error_timestamp"
    /\ error = NoError
    /\ current_time = 0
    /\ log_table = <<>>
    /\ now = 0
    /\ query_result = None
    /\ sk_outcome = NoOutcome
    /\ sk_calls = 0
    /\ sk_insert = "none"
    /\ sk_template0 = [c \in {"job"} |-> StrLit("x")]
    /\ sk_log0 = <<>>
    /\ sk_path = <<>>

InitSink ==
    /\ SinkIdle
    /\ ConcatIdle
    /\ FanOutIdle

\* the caller calls execute_query_log_errs(sql, extra_columns_to_insert,
\* column_error_name, column_datetime_name, dataset_id, table_id)
SinkCall ==
    /\ sk_pc \in {"idle"} \cup SinkTerminal
    /\ sk_calls < MaxCalls
    /\ \E d \in Templates, ek \in ColumnNames, tk \in ColumnNames :
          /\ extra_columns_to_insert' = d
          /\ sk_template0' = d
          /\ column_error_name' = ek
          /\ column_datetime_name' = tk
    /\ sk_pc' = "RUNNING"
    /\ sk_path' = <<"RUNNING">>
    /\ sk_calls' = sk_calls + 1
    /\ error' = NoError
    /\ query_result' = None
    /\ sk_outcome' = NoOutcome
    /\ sk_insert' = "none"
    /\ sk_log0' = log_table
    /\ UNCHANGED <<current_time, log_table, now>>
    /\ UNCHANGED <<concatVars, fanVars>>

\* a variant that hands the RowIterator back to the caller
ReturnValue_Result(r) == r

\* what execute_query_log_errs returns when execute_query returned r:
\* the result is not bound to anything and the function ends without a
\* return statement
ReturnValue(r) == None

\* execute_query returns a RowIterator
ExecuteQueryOk ==
    /\ sk_pc = "RUNNING"
    /\ \E r \in Results :
          /\ query_result' = r
          /\ sk_outcome' = Returned(ReturnValue(r))
    /\ sk_pc' = "SUCCEEDED"
    /\ sk_path' = Append(sk_path, "SUCCEEDED")
    /\ UNCHANGED <<extra_columns_to_insert, column_error_name,
                   column_datetime_name, error, current_time, log_table, now,
                   sk_calls, sk_insert, sk_template0, sk_log0>>
    /\ UNCHANGED <<concatVars, fanVars>>

\* client.query or query_job.result raises; execute_query logs the error
\* and raises the same exception, which the except clause binds to error
ExecuteQueryFail ==
    /\ sk_pc = "RUNNING"
    /\ \E e \in QueryErrors : error' = e
    /\ sk_pc' = "caught"
    /\ sk_path' = Append(sk_path, "caught")
    /\ UNCHANGED <<extra_columns_to_insert, column_error_name,
                   column_datetime_name, current_time, log_table, now,
                   query_result, sk_outcome, sk_calls, sk_insert,
                   sk_template0, sk_log0>>
    /\ UNCHANGED <<concatVars, fanVars>>

\* a variant that forgets the timestamp column
Augmented_NoTimestamp(d, ek, tk, err, t) == DictSet(d, ek, Str(err))

\* the two assignments to the caller's dict, in the order of the code
Augmented(d, ek, tk, err, t) == DictSet(DictSet(d, ek, Str(err)), tk, DateTime(t))

\* current_time = datetime.now() and the two dict assignments
SinkAugment ==
    /\ sk_pc = "caught"
    /\ \E t \in now..MaxTime :
          /\ now' = t
          /\ current_time' = t
          /\ extra_columns_to_insert' =
                Augmented(extra_columns_to_insert, column_error_name,
                          column_datetime_name, error, t)
    /\ sk_pc' = "augmented"
    /\ sk_path' = Append(sk_path, "augmented")
    /\ UNCHANGED <<column_error_name, column_datetime_name, error, log_table,
                   query_result, sk_outcome, sk_calls, sk_insert,
                   sk_template0, sk_log0>>
    /\ UNCHANGED <<concatVars, fanVars>>

\* insert_rows_json appends the row and returns no row errors
SinkInsertOk ==
    /\ sk_pc = "augmented"
    /\ log_table' = Append(log_table, extra_columns_to_insert)
    /\ sk_insert' = "ok"
    /\ sk_pc' = "FAILED_LOGGED"
    /\ sk_path' = Append(sk_path, "FAILED_LOGGED")
    /\ UNCHANGED <<extra_columns_to_insert, column_error_name,
                   column_datetime_name, error, current_time, now,
                   query_result, sk_outcome, sk_calls, sk_template0, sk_log0>>
    /\ UNCHANGED <<concatVars, fanVars>>

\* insert_rows_json returns a list of row errors, which the code drops
SinkInsertRowErrors ==
    /\ sk_pc = "augmented"
    /\ sk_insert' = "row_errors"
    /\ sk_pc' = "FAILED_LOGGED"
    /\ sk_path' = Append(sk_path, "FAILED_LOGGED")
    /\ UNCHANGED <<extra_columns_to_insert, column_error_name,
                   column_datetime_name, error, current_time, log_table, now,
                   query_result, sk_outcome, sk_calls, sk_template0, sk_log0>>
    /\ UNCHANGED <<concatVars, fanVars>>

\* insert_rows_json raises: nothing in the except block catches it, so it
\* leaves execute_query_log_errs in place of the query's error
SinkInsertRaises ==
    /\ sk_pc = "augmented"
    /\ \E e \in SinkErrors : sk_outcome' = Raised(e)
    /\ sk_insert' = "raised"
    /\ sk_pc' = "RAISED"
    /\ sk_path' = Append(sk_path, "RAISED")
    /\ UNCHANGED <<extra_columns_to_insert, column_error_name,
                   column_datetime_name, error, current_time, log_table, now,
                   query_result, sk_calls, sk_template0, sk_log0>>
    /\ UNCHANGED <<concatVars, fanVars>>

\* a variant in which the handler ends without raising
SinkReraise_Swallowed ==
    /\ sk_pc = "FAILED_LOGGED"
    /\ sk_outcome' = Returned(None)
    /\ sk_pc' = "SUCCEEDED"
    /\ sk_path' = Append(sk_path, "SUCCEEDED")
    /\ UNCHANGED <<extra_columns_to_insert, column_error_name,
                   column_datetime_name, error, current_time, log_table, now,
                   query_result, sk_calls, sk_insert, sk_template0, sk_log0>>
    /\ UNCHANGED <<concatVars, fanVars>>

\* raise error
SinkReraise ==
    /\ sk_pc = "FAILED_LOGGED"
    /\ sk_outcome' = Raised(error)
    /\ sk_pc' = "RAISED"
    /\ sk_path' = Append(sk_path, "RAISED")
    /\ UNCHANGED <<extra_columns_to_insert, column_error_name,
                   column_datetime_name, error, current_time, log_table, now,
                   query_result, sk_calls, sk_insert, sk_template0, sk_log0>>
    /\ UNCHANGED <<concatVars, fanVars>>

NextSink ==
    \/ SinkCall
    \/ ExecuteQueryOk
    \/ ExecuteQueryFail
    \/ SinkAugment
    \/ SinkInsertOk
    \/ SinkInsertRowErrors
    \/ SinkInsertRaises
    \/ SinkReraise

SpecSink == InitSink /\ [][NextSink]_vars

(***************************************************************************)
(* Claims about execute_query_log_errs (checked under SpecSink).           *)
(***************************************************************************)
QueryFailed == error # NoError
Visited(p) == \E i \in 1..Len(sk_path) : sk_path[i] = p

\* C1: whenever the query fails, the caller observes the original query
\* error, also when the insert of the diagnostic row fails.
C1_OriginalErrorObserved ==
    (sk_pc = "RAISED" /\ QueryFailed) => sk_outcome = Raised(error)

\* C2: a call whose query fails never returns normally; the insert is
\* attempted before the raise; once FAILED_LOGGED is reached the call ends
\* by raising the query's error.
C2_FailedQueryNeverReturns ==
    /\ (sk_pc \in SinkTerminal /\ QueryFailed) =>
          /\ sk_outcome.kind = "raised"
          /\ sk_insert # "none"
          /\ Visited("augmented")
    /\ (sk_pc = "SUCCEEDED") => ~QueryFailed
    /\ (sk_pc \in SinkTerminal /\ Visited("FAILED_LOGGED")) =>
          /\ sk_pc = "RAISED"
          /\ sk_outcome = Raised(error)
    /\ (sk_pc = "FAILED_LOGGED") => (sk_outcome = NoOutcome /\ sk_insert # "none")

C2_Witness ==
    /\ sk_pc = "RAISED"
    /\ Visited("FAILED_LOGGED")
    /\ sk_insert = "row_errors"
    /\ sk_outcome = Raised(error)

\* the row the claim expects: the template with error_key and timestamp_key set
IsExpectedRow(row) ==
    /\ DOMAIN row = (DOMAIN sk_template0) \cup {column_error_name, column_datetime_name}
    /\ row[column_error_name] = Str(error)
    /\ row[column_datetime_name] = DateTime(current_time)
    /\ \A c \in (DOMAIN sk_template0) \ {column_error_name, column_datetime_name} :
          row[c] = sk_template0[c]

\* C3 as stated: after every call whose query fails the log table holds
\* exactly one new row, the template extended with the error string and the
\* captured time, and its other rows are as before.
C3_ExactlyOneNewRow ==
    (sk_pc = "RAISED" /\ QueryFailed) =>
        /\ Len(log_table) = Len(sk_log0) + 1
        /\ SubSeq(log_table, 1, Len(sk_log0)) = sk_log0
        /\ IsExpectedRow(log_table[Len(log_table)])

\* the row the code builds: the timestamp is assigned last, so it wins when
\* both column names are the same
IsBuiltRow(row) ==
    /\ DOMAIN row = (DOMAIN sk_template0) \cup {column_error_name, column_datetime_name}
    /\ row[column_datetime_name] = DateTime(current_time)
    /\ (column_error_name # column_datetime_name) =>
          row[column_error_name] = Str(error)
    /\ \A c \in (DOMAIN sk_template0) \ {column_error_name, column_datetime_name} :
          row[c] = sk_template0[c]

\* C3 amended: after a call whose query fails the log table holds one new
\* row, the built row, when insert_rows_json accepted it, and no new row
\* when the insert raised or reported row errors; the rows that were there
\* before are unchanged.
C3_AtMostOneRowAppended ==
    (sk_pc \in {"FAILED_LOGGED", "RAISED"} /\ QueryFailed) =>
        /\ SubSeq(log_table, 1, Len(sk_log0)) = sk_log0
        /\ IF sk_insert = "ok"
              THEN /\ Len(log_table) = Len(sk_log0) + 1
                   /\ IsBuiltRow(log_table[Len(log_table)])
              ELSE log_table = sk_log0

C3_Witness ==
    /\ sk_pc = "RAISED"
    /\ QueryFailed
    /\ sk_insert = "ok"
    /\ Len(sk_log0) = 1
    /\ Len(log_table) = 2
    /\ IsExpectedRow(log_table[2])

\* C4 as stated: when the query succeeds the caller gets the query result,
\* and neither the log table nor the caller's template changes.
C4_ReturnsQueryResult ==
    (sk_pc = "SUCCEEDED") =>
        /\ sk_outcome = Returned(query_result)
        /\ log_table = sk_log0
        /\ extra_columns_to_insert = sk_template0

\* C4 amended: when the query succeeds the call returns None (the query
\* result is dropped), no insert is performed, and neither the log table
\* nor the caller's template changes.
C4_ReturnsNoneNoSink ==
    (sk_pc = "SUCCEEDED") =>
        /\ sk_outcome = Returned(None)
        /\ query_result \in Results
        /\ sk_insert = "none"
        /\ log_table = sk_log0
        /\ extra_columns_to_insert = sk_template0

C4_Witness ==
    /\ sk_pc = "SUCCEEDED"
    /\ query_result \in Results
    /\ sk_calls = 2
    /\ Len(log_table) = 1

(***************************************************************************)
(* concat_parquet_to_csv_gzip and run_command (file_handler.py).           *)
(*                                                                         *)
(* A file name is a sequence of name pieces; no piece occurs inside        *)
(* another, so Python's substring test "x in name" is the test for a       *)
(* contiguous subsequence of pieces.                                       *)
(***************************************************************************)
\* Python's  sub in name
Contains(name, sub) ==
    \E i \in 0..(Len(name) - Len(sub)) : SubSeq(name, i + 1, i + Len(sub)) = sub

TableNames == {<<"a">>, <<"a", "b">>, <<"b">>}

\* what the working directory may hold when the call starts
FileUniverse ==
    { <<"a", "_0", ".parquet">>,
      <<"a", "_1", ".parquet">>,
      <<"a", "b", "_0", ".parquet">>,
      <<"a", "_0", ".parquet", ".bak">>,
      <<"a", ".csv", "_0", ".parquet">>,
      <<"a", ".csv", ".gz">>,
      <<"b", "_0", ".parquet">> }

\* conca_csv_name, an output name with a {table_name} placeholder
ConcaCsvName == [pre |-> <<>>, post |-> <<".csv">>]

\* conca_csv_name.format(table_name=table_name)
Format(tpl, table_name) == tpl.pre \o table_name \o tpl.post

\* the list comprehension over os.listdir(output_folder)
Listing(folder, table_name) ==
    { csv_name \in folder :
        /\ ~Contains(csv_name, <<".csv", ".gz">>)
        /\ ~Contains(csv_name, <<".csv">>)
        /\ Contains(csv_name, table_name) }

\* the names the shell expands  {output_folder}/*{table_name}*.parquet  to:
\* a name that ends in .parquet with table_name before that ending; a
\* leading * does not match a name that starts with a dot
GlobParquet(folder, table_name) ==
    { f \in folder :
        /\ Len(f) >= 1
        /\ f[Len(f)] = ".parquet"
        /\ f[1] \notin {".parquet", ".csv", ".gz", ".bak"}
        /\ Contains(SubSeq(f, 1, Len(f) - 1), table_name) }

\* a variant of run_command that ignores the return code
RunCommandRaises_Never(returncode) == FALSE

\* run_command: raise Exception unless the return code is 0
RunCommandRaises(returncode) == ~(returncode = 0)

TableLists ==
    UNION { [1..n -> TableNames] : n \in 0..MaxTables }

InitConcat ==
    /\ ct_pc = "idle"
    /\ output_folder \in SUBSET FileUniverse
    /\ part_tables_name = <<>>
    /\ ct_i = 0
    /\ csv_file_path = {}
    /\ csv_name_path = <<>>
    /\ ct_hist = <<>>
    /\ SinkIdle
    /\ FanOutIdle

table_name == part_tables_name[ct_i]

\* the record of the table the loop is at
Cur == ct_hist[Len(ct_hist)]
SetCur(r) == [ct_hist EXCEPT ![Len(ct_hist)] = r]

\* the caller calls concat_parquet_to_csv_gzip(part_tables_name,
\* output_folder, conca_csv_name); an empty list ends the loop at once
ConcatCall ==
    /\ ct_pc = "idle"
    /\ \E l \in TableLists :
          /\ part_tables_name' = l
          /\ ct_pc' = IF Len(l) = 0 THEN "returned" ELSE "list"
          /\ ct_i' = IF Len(l) = 0 THEN 0 ELSE 1
    /\ UNCHANGED <<output_folder, csv_file_path, csv_name_path, ct_hist>>
    /\ UNCHANGED <<sinkVars, fanVars>>

\* csv_file_path = [... for csv_name in os.listdir(output_folder) if ...]
ConcatList ==
    /\ ct_pc = "list"
    /\ csv_file_path' = Listing(output_folder, table_name)
    /\ ct_hist' = Append(ct_hist,
          [table_name |-> table_name,
           csv_file_path |-> Listing(output_folder, table_name),
           before |-> output_folder,
           merged |-> "none",
           compressed |-> "none",
           delete |-> "none",
           removed |-> {},
           after |-> output_folder,
           state |-> "running"])
    /\ ct_pc' = "merge"
    /\ UNCHANGED <<output_folder, part_tables_name, ct_i, csv_name_path>>
    /\ UNCHANGED <<sinkVars, fanVars>>

\* the for loop moves to the next table, or the function returns
AfterTable(i, tables) == IF i < Len(tables) THEN "list" ELSE "returned"

\* a variant that logs the failure of a table and goes on with the next
OnError_Continue(i, tables) == AfterTable(i, tables)

\* an exception raised in the loop body (raise error, or run_command's
\* raise Exception) is caught nowhere in the function: it ends the loop
\* and the call
OnError(i, tables) == "raised"

\* pl.scan_parquet(csv_file_path) and lf.sink_csv(csv_name_path) succeed:
\* the merged csv is written
ConcatMergeOk ==
    /\ ct_pc = "merge"
    /\ csv_name_path' = Format(ConcaCsvName, table_name)
    /\ output_folder' = output_folder \cup {Format(ConcaCsvName, table_name)}
    /\ ct_hist' = SetCur([Cur EXCEPT !.merged = "ok",
                                     !.after = output_folder'])
    /\ ct_pc' = "compress"
    /\ UNCHANGED <<part_tables_name, ct_i, csv_file_path>>
    /\ UNCHANGED <<sinkVars, fanVars>>

\* scan_parquet or sink_csv raises: the error is logged and raised again;
\* sink_csv may have created the output before it failed
ConcatMergeFail ==
    /\ ct_pc = "merge"
    /\ \E partial \in BOOLEAN :
          output_folder' = IF partial
                              THEN output_folder \cup {Format(ConcaCsvName, table_name)}
                              ELSE output_folder
    /\ ct_hist' = SetCur([Cur EXCEPT !.merged = "failed",
                                     !.after = output_folder',
                                     !.state = "raised"])
    /\ ct_pc' = OnError(ct_i, part_tables_name)
    /\ ct_i' = IF OnError(ct_i, part_tables_name) = "list" THEN ct_i + 1 ELSE ct_i
    /\ UNCHANGED <<part_tables_name, csv_file_path, csv_name_path>>
    /\ UNCHANGED <<sinkVars, fanVars>>

\* gzip --fast {csv_name_path} exits 0: the csv is replaced by csv.gz
ConcatCompressOk ==
    /\ ct_pc = "compress"
    /\ output_folder' = (output_folder \ {csv_name_path})
                           \cup {csv_name_path \o <<".gz">>}
    /\ ct_hist' = SetCur([Cur EXCEPT !.compressed = "ok",
                                     !.after = output_folder'])
    /\ ct_pc' = IF RunCommandRaises(0) THEN "raised" ELSE "delete"
    /\ UNCHANGED <<part_tables_name, ct_i, csv_file_path, csv_name_path>>
    /\ UNCHANGED <<sinkVars, fanVars>>

\* gzip exits non-zero and leaves the directory as it was; run_command
\* logs and raises
ConcatCompressFail ==
    /\ ct_pc = "compress"
    /\ \E returncode \in {1, 2} :
          /\ ct_pc' = IF RunCommandRaises(returncode)
                         THEN OnError(ct_i, part_tables_name)
                         ELSE "delete"
          /\ ct_i' = IF RunCommandRaises(returncode)
                        /\ OnError(ct_i, part_tables_name) = "list"
                        THEN ct_i + 1 ELSE ct_i
          /\ ct_hist' = SetCur([Cur EXCEPT
                !.compressed = "failed",
                !.state = IF RunCommandRaises(returncode) THEN "raised" ELSE @])
    /\ UNCHANGED <<output_folder, part_tables_name, csv_file_path,
                   csv_name_path>>
    /\ UNCHANGED <<sinkVars, fanVars>>


\* rm -fr {output_folder}/*{table_name}*.parquet exits 0
ConcatDeleteOk ==
    /\ ct_pc = "delete"
    /\ output_folder' = output_folder \ GlobParquet(output_folder, table_name)
    /\ ct_hist' = SetCur([Cur EXCEPT
          !.delete = "ok",
          !.removed = GlobParquet(output_folder, table_name),
          !.after = output_folder',
          !.state = "completed"])
    /\ ct_pc' = AfterTable(ct_i, part_tables_name)
    /\ ct_i' = IF ct_i < Len(part_tables_name) THEN ct_i + 1 ELSE ct_i
    /\ UNCHANGED <<part_tables_name, csv_file_path, csv_name_path>>
    /\ UNCHANGED <<sinkVars, fanVars>>

\* rm exits non-zero having removed some of the matching files but not
\* all; run_command logs and raises
ConcatDeleteFail ==
    /\ ct_pc = "delete"
    /\ \E gone \in SUBSET GlobParquet(output_folder, table_name) :
          /\ gone # GlobParquet(output_folder, table_name) \/ gone = {}
          /\ output_folder' = output_folder \ gone
          /\ ct_hist' = SetCur([Cur EXCEPT
                !.delete = "failed",
                !.removed = gone,
                !.after = output_folder',
                !.state = "raised"])
    /\ ct_pc' = OnError(ct_i, part_tables_name)
    /\ ct_i' = IF OnError(ct_i, part_tables_name) = "list" THEN ct_i + 1 ELSE ct_i
    /\ UNCHANGED <<part_tables_name, csv_file_path, csv_name_path>>
    /\ UNCHANGED <<sinkVars, fanVars>>

NextConcat ==
    \/ ConcatCall
    \/ ConcatList
    \/ ConcatMergeOk
    \/ ConcatMergeFail
    \/ ConcatCompressOk
    \/ ConcatCompressFail
    \/ ConcatDeleteOk
    \/ ConcatDeleteFail

SpecConcat == InitConcat /\ [][NextConcat]_vars

(***************************************************************************)
(* Claims about concat_parquet_to_csv_gzip (checked under SpecConcat).     *)
(***************************************************************************)
Started == 1..Len(ct_hist)

\* C5: when the compression command exits non-zero the deletion step is
\* never invoked for that table and every input file of the table is still
\* in the working directory when the error reaches the caller; input files
\* of a table are absent only if that table's compression succeeded.
C5_NoDeleteAfterFailedCompression ==
    \A k \in Started :
        /\ (ct_hist[k].compressed = "failed") =>
              /\ ct_hist[k].delete = "none"
              /\ ct_hist[k].removed = {}
              /\ ct_pc = "raised"
              /\ ct_hist[k].state = "raised"
              /\ ct_hist[k].csv_file_path \subseteq output_folder
        /\ (ct_hist[k].csv_file_path \ output_folder # {}) =>
              ct_hist[k].compressed = "ok"

C5_Witness ==
    /\ ct_pc = "raised"
    /\ Len(ct_hist) = 2
    /\ ct_hist[1].removed # {}
    /\ ct_hist[2].compressed = "failed"
    /\ ct_hist[2].csv_file_path # {}
    /\ ct_hist[2].csv_file_path \subseteq output_folder

\* C6: for every table whose compression succeeds, the files the deletion
\* step removes are exactly the files the listing selected as inputs
\* (stated for the tables whose merge had at least one input, so that a
\* violation does not rest on what a merge of no file does).
C6_DeletesExactlyTheInputs ==
    \A k \in Started :
        (/\ ct_hist[k].csv_file_path # {}
         /\ ct_hist[k].compressed = "ok"
         /\ ct_hist[k].delete = "ok") =>
            ct_hist[k].removed = ct_hist[k].csv_file_path

\* C7: a table with no matching file is processed without an error and
\* without creating, changing or deleting any file, and the loop goes on.
C7_EmptyInputIsNoOp ==
    \A k \in Started :
        (ct_hist[k].csv_file_path = {}) =>
            /\ ct_hist[k].state # "raised"
            /\ ct_hist[k].after = ct_hist[k].before

(***************************************************************************)
(* The two fan-out calls: GCPBigQueryHandler.load_to_gcs_in_parallel and   *)
(* SftpHandler / FtpHandler.upload_all_files_in_parallel.  Both run        *)
(*     with ThreadPoolExecutor() as pool: pool.map(task, items)            *)
(* map submits one task per item, in order; the workers take the queued    *)
(* tasks in that order; leaving the with block is shutdown(wait=True).     *)
(* The iterator map returns is never read.                                 *)
(***************************************************************************)
\* the items of the batch: table names, or the entries of the listing
Items == IF fo_kind = "export" THEN tables_name ELSE files_name_to_upload

Finished == {"done", "failed", "cancelled"}
Busy == {"running", "waiting", "transferring"}

\* tables_name of a batch of n tables
TableIds(n) == [i \in 1..n |-> i]

\* os.listdir(output_folder): n entries, each a regular file or not
Listings == UNION { [1..n -> [isfile : BOOLEAN]] : n \in 0..MaxTasks }

InitFanOut ==
    /\ FanOutIdle
    /\ SinkIdle
    /\ ConcatIdle

\* load_to_gcs_in_parallel(tables_name, uri_path, proyect_id, dataset_id)
CallLoadToGcs ==
    /\ fo_pc \in {"idle", "returned"}
    /\ fo_batches < MaxBatches
    /\ \E n \in 0..MaxTasks : tables_name' = TableIds(n)
    /\ fo_kind' = "export"
    /\ files_name_to_upload' = <<>>
    /\ fo_pc' = "submitting"
    /\ fo_task' = <<>>
    /\ export_jobs' = {}
    /\ exported' = {}
    /\ attempts' = <<>>
    /\ uploaded' = {}
    /\ fo_raised' = {}
    /\ fo_batches' = fo_batches + 1
    /\ fo_success_logged' = FALSE
    /\ UNCHANGED fo_returned
    /\ UNCHANGED <<sinkVars, concatVars>>

\* upload_all_files_in_parallel(output_folder):
\* files_name_to_upload = os.listdir(output_folder)
CallUploadAll ==
    /\ fo_pc \in {"idle", "returned"}
    /\ fo_batches < MaxBatches
    /\ \E l \in Listings :
          /\ files_name_to_upload' = l
          /\ attempts' = [i \in 1..Len(l) |-> 0]
    /\ fo_kind' = "upload"
    /\ tables_name' = <<>>
    /\ fo_pc' = "submitting"
    /\ fo_task' = <<>>
    /\ export_jobs' = {}
    /\ exported' = {}
    /\ uploaded' = {}
    /\ fo_raised' = {}
    /\ fo_batches' = fo_batches + 1
    /\ fo_success_logged' = FALSE
    /\ UNCHANGED fo_returned
    /\ UNCHANGED <<sinkVars, concatVars>>

FanOutKeep ==
    UNCHANGED <<fo_kind, tables_name, files_name_to_upload, fo_batches,
                fo_returned, sinkVars, concatVars>>

\* pool.map submits the next item's task to the pool
PoolSubmit ==
    /\ fo_pc = "submitting"
    /\ Len(fo_task) < Len(Items)
    /\ fo_task' = Append(fo_task, "pending")
    /\ UNCHANGED <<fo_pc, export_jobs, exported, attempts, uploaded, fo_raised,
                   fo_success_logged>>
    /\ FanOutKeep

\* pool.map has submitted every item and returns; the with block ends and
\* calls pool.shutdown(wait=True)
PoolExitBlock ==
    /\ fo_pc = "submitting"
    /\ Len(fo_task) = Len(Items)
    /\ fo_pc' = "shutdown"
    /\ UNCHANGED <<fo_task, export_jobs, exported, attempts, uploaded,
                   fo_raised, fo_success_logged>>
    /\ FanOutKeep

\* a worker thread takes the oldest queued task; at most MaxWorkers
\* threads exist
WorkerTake(i) ==
    /\ fo_task[i] = "pending"
    /\ \A j \in 1..(i - 1) : fo_task[j] # "pending"
    /\ Cardinality({j \in 1..Len(fo_task) : fo_task[j] \in Busy}) < MaxWorkers
    /\ fo_task' = [fo_task EXCEPT ![i] = "running"]
    /\ UNCHANGED <<fo_pc, export_jobs, exported, attempts, uploaded, fo_raised,
                   fo_success_logged>>
    /\ FanOutKeep

\* a variant of the pool that drops the tasks still queued when one fails
TaskFailed_CancelQueued(tasks, i) ==
    [j \in 1..Len(tasks) |->
        IF j = i THEN "failed"
        ELSE IF tasks[j] = "pending" THEN "cancelled" ELSE tasks[j]]

\* task i raised: the worker stores the exception in the task's future and
\* goes on to the next queued task; no other task is touched
TaskFailed(tasks, i) == [tasks EXCEPT ![i] = "failed"]

\* export_table_to_storage: client.extract_table starts the extract job
ExportRequest(i) ==
    /\ fo_kind = "export"
    /\ fo_task[i] = "running"
    /\ export_jobs' = export_jobs \cup {tables_name[i]}
    /\ fo_task' = [fo_task EXCEPT ![i] = "waiting"]
    /\ UNCHANGED <<fo_pc, exported, attempts, uploaded, fo_raised,
                   fo_success_logged>>
    /\ FanOutKeep

\* client.extract_table raises: logged and raised again
ExportRequestFails(i) ==
    /\ fo_kind = "export"
    /\ fo_task[i] = "running"
    /\ fo_task' = TaskFailed(fo_task, i)
    /\ fo_raised' = fo_raised \cup {i}
    /\ UNCHANGED <<fo_pc, export_jobs, exported, attempts, uploaded,
                   fo_success_logged>>
    /\ FanOutKeep

\* extract_job.result() returns: the table is in storage
ExportResultOk(i) ==
    /\ fo_kind = "export"
    /\ fo_task[i] = "waiting"
    /\ exported' = exported \cup {tables_name[i]}
    /\ fo_task' = [fo_task EXCEPT ![i] = "done"]
    /\ UNCHANGED <<fo_pc, export_jobs, attempts, uploaded, fo_raised,
                   fo_success_logged>>
    /\ FanOutKeep

\* extract_job.result() raises: logged and raised again
ExportResultFails(i) ==
    /\ fo_kind = "export"
    /\ fo_task[i] = "waiting"
    /\ fo_task' = TaskFailed(fo_task, i)
    /\ fo_raised' = fo_raised \cup {i}
    /\ UNCHANGED <<fo_pc, export_jobs, exported, attempts, uploaded,
                   fo_success_logged>>
    /\ FanOutKeep

\* a variant of upload_files without the check
IsFile_Always(entry) == TRUE

\* os.path.isfile(local_file_path)
IsFile(entry) == entry.isfile

\* upload_files on an entry that is not a regular file: nothing is done
UploadSkip(i) ==
    /\ fo_kind = "upload"
    /\ fo_task[i] = "running"
    /\ ~IsFile(files_name_to_upload[i])
    /\ fo_task' = [fo_task EXCEPT ![i] = "done"]
    /\ UNCHANGED <<fo_pc, export_jobs, exported, attempts, uploaded, fo_raised,
                   fo_success_logged>>
    /\ FanOutKeep

\* upload_files enters self.conn.put / self.conn.storbinary on the one
\* connection of the handler
TransferBegin(i) ==
    /\ fo_kind = "upload"
    /\ fo_task[i] = "running"
    /\ IsFile(files_name_to_upload[i])
    /\ attempts' = [attempts EXCEPT ![i] = @ + 1]
    /\ fo_task' = [fo_task EXCEPT ![i] = "transferring"]
    /\ UNCHANGED <<fo_pc, export_jobs, exported, uploaded, fo_raised,
                   fo_success_logged>>
    /\ FanOutKeep

\* the transfer returns: "Uploaded: ..." is logged
TransferOk(i) ==
    /\ fo_kind = "upload"
    /\ fo_task[i] = "transferring"
    /\ uploaded' = uploaded \cup {i}
    /\ fo_task' = [fo_task EXCEPT ![i] = "done"]
    /\ UNCHANGED <<fo_pc, export_jobs, exported, attempts, fo_raised,
                   fo_success_logged>>
    /\ FanOutKeep

\* the transfer raises: "Couldnt upload: ..." is logged and the error is
\* raised again
TransferFails(i) ==
    /\ fo_kind = "upload"
    /\ fo_task[i] = "transferring"
    /\ fo_task' = TaskFailed(fo_task, i)
    /\ fo_raised' = fo_raised \cup {i}
    /\ UNCHANGED <<fo_pc, export_jobs, exported, attempts, uploaded,
                   fo_success_logged>>
    /\ FanOutKeep

\* a variant of the pool left with shutdown(wait=False)
ShutdownReturns_NoWait(tasks) == TRUE

\* shutdown(wait=True) returns once every worker thread has ended, which
\* they do when no task is queued or running
ShutdownReturns(tasks) == \A i \in 1..Len(tasks) : tasks[i] \in Finished

\* a variant that reads the iterator pool.map returned, which raises the
\* first stored exception
BatchOutcome_ReadResults(tasks) ==
    IF \E i \in 1..Len(tasks) : tasks[i] = "failed" THEN "raised" ELSE "returned"

\* how the call ends once the pool has shut down: the iterator returned by
\* pool.map is never read, so no stored exception is raised in the caller
BatchOutcome(tasks) == "returned"

\* the with block is left and the function returns; the upload handlers
\* first log "All files loaded successfully :3" and the elapsed time
FanOutReturn ==
    /\ fo_pc = "shutdown"
    /\ ShutdownReturns(fo_task)
    /\ fo_pc' = BatchOutcome(fo_task)
    /\ fo_success_logged' = (fo_kind = "upload" /\ BatchOutcome(fo_task) = "returned")
    /\ fo_returned' = fo_returned \cup {fo_kind}
    /\ UNCHANGED <<fo_task, export_jobs, exported, attempts, uploaded,
                   fo_raised>>
    /\ UNCHANGED <<fo_kind, tables_name, files_name_to_upload, fo_batches,
                   sinkVars, concatVars>>

NextFanOut ==
    \/ CallLoadToGcs
    \/ CallUploadAll
    \/ PoolSubmit
    \/ PoolExitBlock
    \/ \E i \in 1..Len(fo_task) : WorkerTake(i)
    \/ \E i \in 1..Len(fo_task) : ExportRequest(i)
    \/ \E i \in 1..Len(fo_task) : ExportRequestFails(i)
    \/ \E i \in 1..Len(fo_task) : ExportResultOk(i)
    \/ \E i \in 1..Len(fo_task) : ExportResultFails(i)
    \/ \E i \in 1..Len(fo_task) : UploadSkip(i)
    \/ \E i \in 1..Len(fo_task) : TransferBegin(i)
    \/ \E i \in 1..Len(fo_task) : TransferOk(i)
    \/ \E i \in 1..Len(fo_task) : TransferFails(i)
    \/ FanOutReturn

SpecFanOut == InitFanOut /\ [][NextFanOut]_vars

(***************************************************************************)
(* Claims about the fan-out calls (checked under SpecFanOut).              *)
(***************************************************************************)
Tasks == 1..Len(fo_task)
RegularFiles == {i \in 1..Len(files_name_to_upload) : files_name_to_upload[i].isfile}
Directories == {i \in 1..Len(files_name_to_upload) : ~files_name_to_upload[i].isfile}

\* C8: in load_to_gcs_in_parallel the failure of one table's export never
\* cancels or prevents the export of another table: no task is dropped, a
\* task fails only by its own export raising, and when the call returns
\* every table whose own export did not raise has been exported.
C8_FailureIsolated ==
    (fo_kind = "export") =>
        /\ \A i \in Tasks :
              /\ fo_task[i] # "cancelled"
              /\ (fo_task[i] = "failed") => (i \in fo_raised)
        /\ (fo_pc = "returned") =>
              /\ Len(fo_task) = Len(tables_name)
              /\ \A i \in 1..Len(tables_name) :
                    (i \notin fo_raised) =>
                        /\ fo_task[i] = "done"
                        /\ tables_name[i] \in export_jobs
                        /\ tables_name[i] \in exported

\* with two workers the third export starts only after one of the first two
\* has ended, and here both of them failed
C8_Witness ==
    /\ fo_kind = "export"
    /\ fo_pc = "returned"
    /\ Len(tables_name) = 3
    /\ fo_raised = {1, 2}
    /\ exported = {tables_name[3]}

\* C9: when a fan-out call returns, every task of its batch has finished
\* (succeeded or failed): none is still queued or running.
C9_WaitAll ==
    (fo_pc = "returned") =>
        /\ Len(fo_task) = Len(Items)
        /\ \A i \in Tasks : fo_task[i] \in {"done", "failed"}

C9_Witness ==
    /\ fo_pc = "returned"
    /\ fo_returned = {"export", "upload"}
    /\ Len(fo_task) = 3
    /\ \E i \in Tasks : fo_task[i] = "failed"
    /\ \E i \in Tasks : fo_task[i] = "done" /\ i \in uploaded

\* C10 as stated: for a listing with K regular files and M directories,
\* exactly K upload tasks are created and exactly K transfers are attempted,
\* one per regular file and none for a directory.
C10_OneTaskPerRegularFile ==
    (fo_kind = "upload" /\ fo_pc = "returned") =>
        /\ Len(fo_task) = Cardinality(RegularFiles)
        /\ \A i \in RegularFiles : attempts[i] = 1
        /\ \A i \in Directories : attempts[i] = 0

\* C10 amended: no transfer is ever attempted for a directory; for a
\* listing with K regular files and M directories K + M pool tasks are
\* created, one per entry, and when the call returns exactly one transfer
\* has been attempted for each regular file and none for a directory.
C10_NoTransferForDirectories ==
    (fo_kind = "upload") =>
        /\ \A i \in Directories : attempts[i] = 0
        /\ \A i \in RegularFiles : attempts[i] <= 1
        /\ (fo_pc = "returned") =>
              /\ Len(fo_task) = Cardinality(RegularFiles) + Cardinality(Directories)
              /\ \A i \in RegularFiles : attempts[i] = 1

C10_Witness ==
    /\ fo_kind = "upload"
    /\ fo_pc = "returned"
    /\ Cardinality(RegularFiles) = 2
    /\ Cardinality(Directories) = 1
    /\ Len(fo_task) = 3
    /\ \A i \in RegularFiles : attempts[i] = 1
    /\ \A i \in Directories : attempts[i] = 0 /\ fo_task[i] = "done"

\* C11: an exception raised inside a pooled task is not surfaced to the
\* caller: a fan-out call in which one or more tasks raised still returns
\* normally, and the upload call still logs its final success message.
C11_TaskErrorsNotSurfaced ==
    /\ fo_pc # "raised"
    /\ (fo_pc = "returned" /\ fo_raised # {}) =>
          /\ \E i \in Tasks : fo_task[i] = "failed"
          /\ (fo_kind = "upload") => fo_success_logged

C11_Witness ==
    /\ fo_pc = "returned"
    /\ fo_kind = "upload"
    /\ "export" \in fo_returned
    /\ Cardinality(fo_raised) = 2
    /\ fo_success_logged

\* C12: tables are processed strictly one after another, and a failure
\* (merge, compression or deletion) at position i ends the call at once:
\* no later table is listed, merged, compressed or deleted, and what was
\* done for the tables before i stays in place.
C12_FailureAbortsTheCall ==
    /\ Len(ct_hist) <= Len(part_tables_name)
    /\ \A k \in Started :
          /\ ct_hist[k].table_name = part_tables_name[k]
          /\ (k < Len(ct_hist)) => ct_hist[k].state = "completed"
          /\ (ct_hist[k].state = "raised") =>
                /\ ct_pc = "raised"
                /\ k = ct_i
                /\ k = Len(ct_hist)
                /\ "failed" \in {ct_hist[k].merged, ct_hist[k].compressed,
                                 ct_hist[k].delete}
    /\ (ct_pc = "raised") =>
          /\ Len(ct_hist) = ct_i
          /\ ct_hist[ct_i].state = "raised"
          /\ \A k \in 1..(ct_i - 1) :
                /\ ct_hist[k].removed \cap output_folder = {}
                /\ (Format(ConcaCsvName, ct_hist[k].table_name) \o <<".gz">>)
                      \in output_folder

C12_Witness ==
    /\ ct_pc = "raised"
    /\ Len(part_tables_name) = 2
    /\ ct_i = 1
    /\ Len(ct_hist) = 1
    /\ ct_hist[1].delete = "failed"
    /\ ct_hist[1].removed # {}
    /\ Listing(output_folder, part_tables_name[2]) # {}

\* a partition file of a table: the table's name, a partition number and
\* the .parquet ending
BelongsTo(f, table) ==
    /\ Len(f) = Len(table) + 2
    /\ SubSeq(f, 1, Len(table)) = table
    /\ f[Len(table) + 1] \in {"_0", "_1"}
    /\ f[Len(f)] = ".parquet"

\* C13: tables are mutually independent: for two distinct table names A
\* and B of the same call (also when one name is part of the other), the
\* consolidation of A neither merges nor deletes a partition file of B.
C13_TablesIndependent ==
    \A k \in Started :
        \A j \in 1..Len(part_tables_name) :
            (part_tables_name[j] # ct_hist[k].table_name) =>
                \A f \in ct_hist[k].before :
                    BelongsTo(f, part_tables_name[j]) =>
                        /\ f \notin ct_hist[k].csv_file_path
                        /\ f \notin ct_hist[k].removed

\* the tasks that are inside self.conn.put / self.conn.storbinary
InTransfer == {i \in Tasks : fo_task[i] = "transferring"}

\* C14: during one upload_all_files_in_parallel call at most one upload
\* task at a time is inside a transfer on the handler's one connection.
C14_OneTransferAtATime ==
    (fo_kind = "upload") => Cardinality(InTransfer) <= 1

====
